---- MODULE Spec2Model ----
(***************************************************************************)
(* Model of the random_graphs crate: the DumbGraph adjacency-set graph     *)
(* (src/src/lib.rs), the uniform G(n,M) sampler                            *)
(* (src/src/distributions/uniform.rs) and the binomial G(n,p) sampler      *)
(* (src/src/distributions/binomial.rs).                                    *)
(***************************************************************************)
EXTENDS Integers, Sequences, FiniteSets

\* ------------------------------------------------------------------ bounds

\* Node identifiers handed to DumbGraph are drawn from 0..MaxNodeId.
MaxNodeId == 2
\* DumbGraph::add_edge is called while the edge list is shorter than this.
MaxEdgeList == 3

NodeIds == 0..MaxNodeId

\* UniformGraphDistribution::new and BinomialGraphDistribution::new are called
\* with nodes in 0..MaxNodes.
MaxNodes == 4
\* UniformGraphDistribution::new is called with edges in 0..MaxEdges.
MaxEdges == 3

VARIABLES
    \* DumbGraph
    adj,        \* HashMap<usize, HashSet<usize>>: a function on the node set
    edges,      \* Vec<DumbEdge>: a sequence of edges
    call,       \* the last call made on the graph
    ret,        \* what that call returned
    \* UniformGraphDistribution
    uargs,      \* the arguments of the last new(nodes, edges)
    unew,       \* what that call returned
    uchosen,    \* chosen_edges of the last sample
    ugraph,     \* the graph the last sample returned
    \* BinomialGraphDistribution
    bargs,      \* the arguments of the last new(nodes, p)
    bnew,       \* what that call returned
    bpc,        \* where sample stands
    bindex,     \* the outer loop's index
    bend,       \* the inner loop's position in nodes
    btrials,    \* the Bernoulli trials sample has drawn, in order
    bgraph      \* the graph sample is building

gvars == <<adj, edges, call, ret>>
uvars == <<uargs, unew, uchosen, ugraph>>
bvars == <<bargs, bnew, bpc, bindex, bend, btrials, bgraph>>

vars == <<adj, edges, call, ret, uargs, unew, uchosen, ugraph,
          bargs, bnew, bpc, bindex, bend, btrials, bgraph>>

\* ------------------------------------------------------- DumbEdge, lib.rs

\* DumbEdge::new(source, target): the key is always None.
DumbEdge(s, t) == [source |-> s, target |-> t, key |-> "None"]

AllEdges == {DumbEdge(s, t) : s \in NodeIds, t \in NodeIds}

\* ------------------------------------------------------ DumbGraph, lib.rs

NoCall == [op |-> "none"]
NoRet == [tag |-> "none"]
Bool(b) == [tag |-> "Bool", value |-> b]
Ok(b) == [tag |-> "Ok", value |-> b]
InvalidEdge(e) == [tag |-> "Err", error |-> "InvalidEdge", edge |-> e]

\* DumbGraph::new()
EmptyAdj == [n \in {} |-> {}]

has_node(node) == node \in DOMAIN adj

\* A validity check that forgets the target.
is_valid_edge_source_only(edge) == has_node(edge.source)

is_valid_edge(edge) == has_node(edge.source) /\ has_node(edge.target)

has_edge(edge) == is_valid_edge(edge) /\ edge.target \in adj[edge.source]

\* node_iter: the keys of adj, each once (the order of a HashMap is not fixed).
node_iter == DOMAIN adj

\* edge_iter: the edge list, in insertion order.
edge_iter == edges

\* An add_node that stores a fresh adjacency set whether or not the node exists.
AddNodeAdjOverwrite(a, node) ==
    [n \in DOMAIN a \cup {node} |-> IF n = node THEN {node} ELSE a[n]]

\* The adjacency map after add_node(node).
AddNodeAdj(a, node) ==
    IF node \in DOMAIN a
    THEN [a EXCEPT ![node] = @ \cup {node}]
    ELSE [n \in DOMAIN a \cup {node} |-> IF n = node THEN {node} ELSE a[n]]

\* What add_node(node) returns: HashSet::insert's answer, or true for a new key.
AddNodeRet(a, node) ==
    IF node \in DOMAIN a THEN node \notin a[node] ELSE TRUE

add_node(node) ==
    /\ adj' = AddNodeAdj(adj, node)
    /\ ret' = Bool(AddNodeRet(adj, node))
    /\ call' = [op |-> "add_node", node |-> node]
    /\ UNCHANGED edges
    /\ UNCHANGED <<uvars, bvars>>

add_edge(edge) ==
    /\ Len(edges) < MaxEdgeList
    /\ call' = [op |-> "add_edge", edge |-> edge]
    /\ UNCHANGED <<uvars, bvars>>
    /\ IF ~is_valid_edge(edge)
       THEN /\ ret' = InvalidEdge(edge)
            /\ UNCHANGED <<adj, edges>>
       ELSE /\ ret' = Ok(edge.target \notin adj[edge.source])
            /\ adj' = [adj EXCEPT ![edge.source] = @ \cup {edge.target}]
            /\ edges' = Append(edges, edge)

GraphInit ==
    /\ adj = EmptyAdj
    /\ edges = <<>>
    /\ call = NoCall
    /\ ret = NoRet

AddNode == \E node \in NodeIds : add_node(node)

AddEdge == \E edge \in AllEdges : add_edge(edge)

NextDumbGraph == AddNode \/ AddEdge

\* ------------------------------------------- petgraph::Graph, as used here

\* Graph::with_capacity / Graph::new_undirected: no nodes, no edges.
EmptyGraph == [nodes |-> <<>>, edges |-> <<>>]

\* Graph::add_node(weight): appends the node; its NodeIndex is its 0-based position.
PgAddNode(g, weight) == [g EXCEPT !.nodes = Append(@, weight)]

\* Graph::add_edge(a, b, ()): appends an edge; parallel edges are allowed.
PgAddEdge(g, a, b) == [g EXCEPT !.edges = Append(@, <<a, b>>)]

RECURSIVE PgAddNodes(_, _, _)
\* (0..n).map(|i| graph.add_node(i)): nodes i, i+1, ..., n-1 added in order.
PgAddNodes(g, i, n) ==
    IF i >= n THEN g ELSE PgAddNodes(PgAddNode(g, i), i + 1, n)

RECURSIVE PgAddEdges(_, _)
\* for (edge_start, edge_end) in chosen_edges { graph.add_edge(..) }
PgAddEdges(g, chosen) ==
    IF chosen = <<>> THEN g
    ELSE PgAddEdges(PgAddEdge(g, Head(chosen)[1], Head(chosen)[2]), Tail(chosen))

node_count(g) == Len(g.nodes)
edge_count(g) == Len(g.edges)

\* ---------------------------------- UniformGraphDistribution, uniform.rs

RECURSIVE binomial(_, _)
\* num_integer::binomial(n, k): the number of k-subsets of an n-set.
binomial(n, k) ==
    IF k > n THEN 0
    ELSE IF k = 0 THEN 1
    ELSE binomial(n - 1, k - 1) + binomial(n - 1, k)

\* A new that also rejects edges = C(nodes, 2).
UniformNewStrict(nodes, nedges) ==
    IF nedges >= binomial(nodes, 2)
    THEN [tag |-> "Err", error |-> "TooManyEdges"]
    ELSE [tag |-> "Ok", nodes |-> nodes, edges |-> nedges]

\* UniformGraphDistribution::new(nodes, edges)
UniformNew(nodes, nedges) ==
    IF nedges > binomial(nodes, 2)
    THEN [tag |-> "Err", error |-> "TooManyEdges"]
    ELSE [tag |-> "Ok", nodes |-> nodes, edges |-> nedges]

\* nodes.iter().cartesian_product(nodes.iter()): every (node, other_node), the
\* second component running fastest.
CartesianProduct(n) ==
    [k \in 1..(n * n) |-> <<(k - 1) \div n, (k - 1) % n>>]

\* A filter that keeps every pair.
KeepAll(pair) == TRUE

\* The filter's predicate: keep a pair unless it is a (node, node) pair.
NotSelfLoop(pair) == pair[1] # pair[2]

\* The candidate sequence handed to choose_multiple.
Candidates(n) == SelectSeq(CartesianProduct(n), NotSelfLoop)

\* The ways to take k distinct positions of a sequence of length len, in order.
InjectiveSeqs(len, k) ==
    {pos \in [1..k -> 1..len] : \A i, j \in 1..k : i # j => pos[i] # pos[j]}

\* choose_multiple(rng, amount): amount distinct positions of the sequence (all
\* of them if it is shorter), in an order the reservoir decides.
ChooseMultiple(seq, amount) ==
    LET k == IF amount < Len(seq) THEN amount ELSE Len(seq)
    IN  {[i \in 1..k |-> seq[pos[i]]] : pos \in InjectiveSeqs(Len(seq), k)}

UniformInit ==
    /\ uargs = [nodes |-> 0, edges |-> 0]
    /\ unew = [tag |-> "none"]
    /\ uchosen = <<>>
    /\ ugraph = [tag |-> "none"]

UNew ==
    \E nodes \in 0..MaxNodes, e \in 0..MaxEdges :
        /\ uargs' = [nodes |-> nodes, edges |-> e]
        /\ unew' = UniformNew(nodes, e)
        /\ uchosen' = <<>>
        /\ ugraph' = [tag |-> "none"]
        /\ UNCHANGED <<gvars, bvars>>

\* sample(rng) on the distribution new returned; the caller holds one sampled
\* graph at a time.
USample ==
    /\ unew.tag = "Ok"
    /\ ugraph.tag = "none"
    /\ \E chosen \in ChooseMultiple(Candidates(unew.nodes), unew.edges) :
        /\ uchosen' = chosen
        /\ ugraph' = [tag |-> "graph",
                      g |-> PgAddEdges(PgAddNodes(EmptyGraph, 0, unew.nodes), chosen)]
    /\ UNCHANGED <<uargs, unew, gvars, bvars>>

\* The caller drops the sampled graph; the distribution can be sampled again.
UDrop ==
    /\ ugraph.tag = "graph"
    /\ ugraph' = [tag |-> "none"]
    /\ uchosen' = <<>>
    /\ UNCHANGED <<uargs, unew, gvars, bvars>>

NextUniform == UNew \/ USample \/ UDrop

\* -------------------------------- BinomialGraphDistribution, binomial.rs

\* f64 values: hundredths, or NaN.
F(v) == [nan |-> FALSE, v |-> v]
NaN == [nan |-> TRUE, v |-> 0]
PValues == {F(-5), F(0), F(25), F(100), F(101), NaN}

\* IEEE comparisons: every comparison with NaN is false.
FLt(a, b) == ~a.nan /\ ~b.nan /\ a.v < b.v
FGt(a, b) == ~a.nan /\ ~b.nan /\ a.v > b.v

\* A new that rejects p = 1 too.
BinomialNewStrict(nodes, p) ==
    IF FLt(p, F(0)) \/ ~FLt(p, F(100))
    THEN [tag |-> "Err", error |-> "InvalidProbability", value |-> p]
    ELSE [tag |-> "Ok", nodes |-> nodes, p |-> p]

\* BinomialGraphDistribution::new(nodes, p)
BinomialNew(nodes, p) ==
    IF FLt(p, F(0)) \/ FGt(p, F(100))
    THEN [tag |-> "Err", error |-> "InvalidProbability", value |-> p]
    ELSE [tag |-> "Ok", nodes |-> nodes, p |-> p]

\* Bernoulli::new(p) is Ok exactly for 0 <= p <= 1.
BernoulliNewOk(p) == ~p.nan /\ 0 <= p.v /\ p.v <= 100

\* bernoulli.sample(rng): never true for p = 0, always true for p = 1.
BernoulliSample(p) ==
    IF p.v = 0 THEN {FALSE} ELSE IF p.v = 100 THEN {TRUE} ELSE {TRUE, FALSE}

\* An inner loop that starts at the outer node itself: skip(index).
InnerStartAtIndex(index) == index

\* nodes.iter().skip(index + 1): the inner loop's first position.
InnerStart(index) == index + 1

BinomialInit ==
    /\ bargs = [nodes |-> 0, p |-> F(0)]
    /\ bnew = [tag |-> "none"]
    /\ bpc = "idle"
    /\ bindex = 0
    /\ bend = 0
    /\ btrials = <<>>
    /\ bgraph = EmptyGraph

BNew ==
    /\ bpc \in {"idle", "done", "panicked"}
    /\ \E nodes \in 0..MaxNodes, p \in PValues :
        /\ bargs' = [nodes |-> nodes, p |-> p]
        /\ bnew' = BinomialNew(nodes, p)
    /\ bpc' = "idle"
    /\ bindex' = 0
    /\ bend' = 0
    /\ btrials' = <<>>
    /\ bgraph' = EmptyGraph
    /\ UNCHANGED <<gvars, uvars>>

\* sample, up to the loops: the graph with its nodes, and Bernoulli::new(p).unwrap().
BSampleBegin ==
    /\ bpc \in {"idle", "done"}
    /\ bnew.tag = "Ok"
    /\ bgraph' = PgAddNodes(EmptyGraph, 0, bnew.nodes)
    /\ btrials' = <<>>
    /\ bindex' = 0
    /\ bend' = 0
    /\ bpc' = IF BernoulliNewOk(bnew.p) THEN "outer" ELSE "panicked"
    /\ UNCHANGED <<bargs, bnew, gvars, uvars>>

\* for (index, start_node) in nodes.iter().enumerate()
BOuter ==
    /\ bpc = "outer"
    /\ IF bindex < node_count(bgraph)
       THEN /\ bend' = InnerStart(bindex)
            /\ bpc' = "inner"
       ELSE /\ bend' = bend
            /\ bpc' = "done"
    /\ UNCHANGED <<bargs, bnew, bindex, btrials, bgraph, gvars, uvars>>

\* for end_node in nodes.iter().skip(index + 1) { if bernoulli.sample(rng) {..} }
BInner ==
    /\ bpc = "inner"
    /\ IF bend < node_count(bgraph)
       THEN \E outcome \in BernoulliSample(bnew.p) :
            /\ btrials' = Append(btrials, [pair |-> <<bindex, bend>>, outcome |-> outcome])
            /\ bgraph' = IF outcome THEN PgAddEdge(bgraph, bindex, bend) ELSE bgraph
            /\ bend' = bend + 1
            /\ UNCHANGED <<bindex, bpc>>
       ELSE /\ bindex' = bindex + 1
            /\ bpc' = "outer"
            /\ UNCHANGED <<bend, btrials, bgraph>>
    /\ UNCHANGED <<bargs, bnew, gvars, uvars>>

NextBinomial == BNew \/ BSampleBegin \/ BOuter \/ BInner

\* -------------------------------------------------------- specifications

Init == GraphInit /\ UniformInit /\ BinomialInit

SpecDumbGraph == Init /\ [][NextDumbGraph]_vars

SpecUniform == Init /\ [][NextUniform]_vars

SpecBinomial == Init /\ [][NextBinomial]_vars

\* ------------------------------------------------------ claims: DumbGraph

\* Whether edge_iter of the edge list es yields an edge with e's source and target.
Yields(es, e) ==
    \E i \in 1..Len(es) : es[i].source = e.source /\ es[i].target = e.target

\* has_edge's answer, read off an adjacency map a.
Adjacent(a, e) ==
    /\ e.source \in DOMAIN a
    /\ e.target \in DOMAIN a
    /\ e.target \in a[e.source]

AddEdgeCall(e) == [op |-> "add_edge", edge |-> e]
AddNodeCall(id) == [op |-> "add_node", node |-> id]

\* C7: for an edge e with both endpoints in the graph, the first add_edge(e)
\* returns Ok(true); a later add_edge(e) returns Ok(false) and leaves the number
\* of edges edge_iter yields unchanged.
C7_AddEdgeTwice ==
    [][\A e \in AllEdges :
        (call' = AddEdgeCall(e) /\ e.source \in DOMAIN adj /\ e.target \in DOMAIN adj)
        => IF ~Yields(edge_iter, e)
           THEN ret' = Ok(TRUE)
           ELSE ret' = Ok(FALSE) /\ Len(edge_iter') = Len(edge_iter)]_vars

\* C8: add_edge(e) with an endpoint that is not a node returns
\* Err(InvalidEdge(e)) and changes neither the nodes, the adjacency sets nor the
\* edge list; and every edge of edge_iter has both endpoints in the node set.
C8_InvalidEdgeRejected ==
    /\ [](\A i \in 1..Len(edge_iter) :
            edge_iter[i].source \in node_iter /\ edge_iter[i].target \in node_iter)
    /\ [][\A e \in AllEdges :
            (call' = AddEdgeCall(e)
             /\ (e.source \notin DOMAIN adj \/ e.target \notin DOMAIN adj))
            => (ret' = InvalidEdge(e) /\ adj' = adj /\ edges' = edges)]_vars

\* C8's case: a rejected add_edge on a graph that already holds nodes and an edge.
C8_Witness ==
    /\ call.op = "add_edge"
    /\ ret.tag = "Err"
    /\ ret.edge = call.edge
    /\ Len(edges) >= 1
    /\ call.edge.source \in DOMAIN adj
    /\ call.edge.target \notin DOMAIN adj

\* C9: add_node(id) returns true exactly when id was no node; re-adding a node
\* returns false and changes neither the nodes node_iter yields, nor the edges
\* edge_iter yields, nor any has_edge answer; a new id is yielded once more.
C9_AddNodeIdempotent ==
    [][\A id \in NodeIds :
        call' = AddNodeCall(id)
        => /\ ret' = Bool(id \notin DOMAIN adj)
           /\ id \in DOMAIN adj'
           /\ id \in DOMAIN adj
              => /\ node_iter' = node_iter
                 /\ edge_iter' = edge_iter
                 /\ \A e \in AllEdges : Adjacent(adj', e) <=> Adjacent(adj, e)
           /\ id \notin DOMAIN adj
              => /\ node_iter' = node_iter \cup {id}
                 /\ Cardinality(node_iter') = Cardinality(node_iter) + 1
                 /\ edge_iter' = edge_iter]_vars

\* C9's case: a node re-added after an edge from it to another node was added.
C9_Witness ==
    /\ call.op = "add_node"
    /\ ret = Bool(FALSE)
    /\ \E i \in 1..Len(edges) :
        edges[i].source = call.node /\ edges[i].target # call.node

\* C10: has_edge(e) is true exactly when edge_iter yields an edge with e's
\* source and target; has_edge of (n, n) is false while no such edge was added.
C10_HasEdgeIffYielded ==
    \A e \in AllEdges : has_edge(e) <=> Yields(edge_iter, e)

\* ------------------------------------- claims: UniformGraphDistribution

\* The unordered pair an edge joins.
Unordered(pair) == {pair[1], pair[2]}

\* C1: a sampled graph has exactly `nodes` nodes, exactly `edges` edges and no
\* edge whose source is its target.
C1_SampleCounts ==
    ugraph.tag = "graph"
    => /\ node_count(ugraph.g) = uargs.nodes
       /\ edge_count(ugraph.g) = uargs.edges
       /\ \A i \in 1..Len(ugraph.g.edges) :
            ugraph.g.edges[i][1] # ugraph.g.edges[i][2]

\* C1's case: a sample of the largest distribution with the most edges.
C1_Witness ==
    /\ ugraph.tag = "graph"
    /\ uargs.nodes = MaxNodes
    /\ uargs.edges = MaxEdges
    /\ edge_count(ugraph.g) = MaxEdges

\* C2: no two edges of a sampled graph join the same unordered pair of nodes.
C2_NoReciprocalPairs ==
    ugraph.tag = "graph"
    => \A i, j \in 1..Len(ugraph.g.edges) :
        i # j => Unordered(ugraph.g.edges[i]) # Unordered(ugraph.g.edges[j])

\* The k-element subsets of S.
KSubsets(S, k) == {T \in SUBSET S : Cardinality(T) = k}

\* The unordered node pairs of a graph on n nodes.
UnorderedPairs(n) == {{i, j} : i, j \in 0..(n - 1)} \ {{i} : i \in 0..(n - 1)}

\* C3: with every k-subset of the candidate sequence equally likely, the results
\* of sample are exactly the `edges`-subsets of the unordered pairs, each from
\* the same number of selections.
C3_UniformOverSubsets ==
    unew.tag = "Ok"
    => LET cands == Candidates(unew.nodes)
           k == unew.edges
           sels == KSubsets(1..Len(cands), k)
           Result(sel) == {Unordered(cands[i]) : i \in sel}
           targets == KSubsets(UnorderedPairs(unew.nodes), k)
           Count(T) == Cardinality({sel \in sels : Result(sel) = T})
       IN  /\ \A sel \in sels : Cardinality(Result(sel)) = k
           /\ \A T \in targets : Count(T) > 0
           /\ \A T1, T2 \in targets : Count(T1) = Count(T2)
           /\ ugraph.tag = "graph"
              => /\ {Unordered(ugraph.g.edges[i]) : i \in 1..Len(ugraph.g.edges)}
                        \in targets
                 /\ edge_count(ugraph.g) = k

\* C5: new(nodes, edges) is Err(TooManyEdges) exactly when edges > C(nodes, 2),
\* and otherwise Ok with a distribution holding the given nodes and edges.
C5_NewTooManyEdges ==
    unew.tag # "none"
    => LET pairs == (uargs.nodes * (uargs.nodes - 1)) \div 2
       IN  IF uargs.edges > pairs
           THEN unew.tag = "Err" /\ unew.error = "TooManyEdges"
           ELSE /\ unew.tag = "Ok"
                /\ unew.nodes = uargs.nodes
                /\ unew.edges = uargs.edges

\* C5's cases: edges = C(nodes, 2) accepted, one more rejected, and nodes = 0
\* with edges = 0 accepted.
C5_Witness ==
    /\ unew.tag = "Ok"
    /\ uargs.nodes = 3
    /\ uargs.edges = 3

\* ------------------------------------ claims: BinomialGraphDistribution

\* The pairs (i, j) with i < j < n.
PairsBelow(n) == {<<i, j>> \in (0..(n - 1)) \X (0..(n - 1)) : i < j}

\* C4: the graph sample returns has nodes 0..nodes-1; one trial was drawn for
\* each pair i < j and none else; its edges are the pairs whose trial was true,
\* so no self-loop, no pair twice, at most C(nodes, 2) edges.
C4_BinomialSample ==
    bpc = "done"
    => LET n == bargs.nodes
           g == bgraph
           hits == SelectSeq(btrials, LAMBDA t : t.outcome)
       IN  /\ node_count(g) = n
           /\ \A i \in 1..n : g.nodes[i] = i - 1
           /\ Len(btrials) = (n * (n - 1)) \div 2
           /\ {btrials[i].pair : i \in 1..Len(btrials)} = PairsBelow(n)
           /\ g.edges = [i \in 1..Len(hits) |-> hits[i].pair]
           /\ \A i \in 1..Len(g.edges) : g.edges[i][1] # g.edges[i][2]
           /\ \A i, j \in 1..Len(g.edges) :
                i # j => Unordered(g.edges[i]) # Unordered(g.edges[j])
           /\ edge_count(g) <= (n * (n - 1)) \div 2

\* C4's case: a finished sample on the most nodes with some trials true and
\* some false.
C4_Witness ==
    /\ bpc = "done"
    /\ bargs.nodes = MaxNodes
    /\ edge_count(bgraph) > 0
    /\ edge_count(bgraph) < Len(btrials)

====
